---------------------------- MODULE Spec2Model ----------------------------
(***************************************************************************)
(* Smith-Waterman local alignment: the sequential program                  *)
(* (src/cpuSmithWaterman.cpp) and the CUDA wavefront program               *)
(* (src/smithWaterman.cu), run one after the other on the same two input   *)
(* files and the same scoring triple.                                      *)
(*                                                                         *)
(* A residue is a one-character string.  An input file is modelled by      *)
(* whether it can be opened and by its residues as the reader leaves them  *)
(* (white space stripped, upper-cased).  The score and direction matrices  *)
(* are flat arrays indexed by i*(len2+1)+j, as in the source.              *)
(***************************************************************************)
EXTENDS Integers, Sequences, FiniteSets

\* ------------------------------------------------------------- bounds
\* longest input sequence drawn by Init
MaxLen == 3
\* threads per block (256 in src/smithWaterman.cu:177, scaled down so that
\* launches of several blocks and blocks with surplus threads both occur)
ThreadsPerBlock == 2
\* longest aligned string handed to the serializer on its own
MaxCkLen == 59
\* the largest value of the source's int (32 bits)
IntMax == 2147483647

\* ---------------------------------------------------- program constants
DefaultMatch == 2
DefaultMismatch == -1
DefaultGap == -1
DirNone == 0
DirDiag == 1
DirUp == 2
DirLeft == 3

Alphabet == {"A", "C"}
DefaultPolicy ==
    [matchScore |-> DefaultMatch, mismatchScore |-> DefaultMismatch,
     gapScore |-> DefaultGap]
\* the scoring triples smithWaterman() is called with
Policies ==
    {DefaultPolicy,
     [matchScore |-> 1, mismatchScore |-> -1, gapScore |-> -2],
     [matchScore |-> 1, mismatchScore |-> 0, gapScore |-> 1]}

SeqsUpTo(n) == UNION {[1..k -> Alphabet] : k \in 0..n}
\* an input file: unreadable, or readable with its residues
Files ==
    {[open |-> FALSE, residues |-> <<>>]}
        \cup {[open |-> TRUE, residues |-> s] : s \in SeqsUpTo(MaxLen)}

VARIABLES
    file1, file2,   \* the two input files
    policy,         \* the scoring triple
    cpu,            \* host state of the sequential program
    gpu,            \* host state of the CUDA program
    d_score, d_dir, \* device matrices
    d_writes,       \* history: number of kernel writes to each device cell
    threads         \* kernel threads in flight, keyed <<diag, blockIdx, threadIdx>>

vars == <<file1, file2, policy, cpu, gpu, d_score, d_dir, d_writes, threads>>

Empty == [k \in {} |-> 0]
ZeroArray(n) == [k \in 0..(n - 1) |-> 0]

\* seq[k] of the source (0-based)
At(s, k) == s[k + 1]

\* i * (len2+1) + j
Idx(i, j, len2) == i * (len2 + 1) + j
Row(c, len2) == c \div (len2 + 1)
Col(c, len2) == c % (len2 + 1)

Reverse(s) == [k \in 1..Len(s) |-> s[Len(s) + 1 - k]]

\* host state before main runs
HostInit ==
    [pc |-> "main", rc |-> -1, seq1 |-> <<>>, seq2 |-> <<>>,
     len1 |-> 0, len2 |-> 0, score |-> Empty, dir |-> Empty,
     i |-> 0, j |-> 0, diag |-> 0,
     maxScore |-> 0, max_i |-> 0, max_j |-> 0, ti |-> 0, tj |-> 0,
     align1 |-> <<>>, align2 |-> <<>>, path |-> <<>>,
     check1 |-> 0, check2 |-> 0, globalCheck |-> 0, reported |-> FALSE,
     cells |-> 0, sized |-> FALSE, index |-> 0, indexed |-> FALSE,
     trapped |-> FALSE]

Init ==
    /\ file1 \in Files
    /\ file2 \in Files
    /\ policy \in Policies
    /\ cpu = HostInit
    /\ gpu = HostInit
    /\ d_score = Empty
    /\ d_dir = Empty
    /\ d_writes = Empty
    /\ threads = Empty

\* ------------------------------------------------ sequential program
\* main up to the call of smithWaterman: both files read, neither sequence
\* empty; otherwise exit code 1 before anything is allocated
SwReadInputs(h) ==
    IF ~file1.open \/ ~file2.open
    THEN [h EXCEPT !.pc = "exit", !.rc = 1]
    ELSE IF file1.residues = <<>> \/ file2.residues = <<>>
    THEN [h EXCEPT !.pc = "exit", !.rc = 1]
    ELSE [h EXCEPT !.pc = "fill",
                   !.seq1 = file1.residues, !.seq2 = file2.residues,
                   !.len1 = Len(file1.residues), !.len2 = Len(file2.residues)]

\* SwCandidates with the branches of the match test exchanged
SwCandidatesSwapped(h, i, j) ==
    [up |-> h.score[Idx(i - 1, j, h.len2)] + policy.gapScore,
     left |-> h.score[Idx(i, j - 1, h.len2)] + policy.gapScore,
     diagScore |-> h.score[Idx(i - 1, j - 1, h.len2)]
                    + (IF At(h.seq1, i - 1) = At(h.seq2, j - 1)
                       THEN policy.mismatchScore ELSE policy.matchScore)]

\* the three candidates of cell (i,j) in the sequential fill
SwCandidates(h, i, j) ==
    [up |-> h.score[Idx(i - 1, j, h.len2)] + policy.gapScore,
     left |-> h.score[Idx(i, j - 1, h.len2)] + policy.gapScore,
     diagScore |-> h.score[Idx(i - 1, j - 1, h.len2)]
                    + (IF At(h.seq1, i - 1) = At(h.seq2, j - 1)
                       THEN policy.matchScore ELSE policy.mismatchScore)]

\* SwChoose with >= in the first comparison: a zero diagonal candidate
\* takes direction DIAG
SwChooseGeq(c) ==
    LET s1 == IF c.diagScore >= 0 THEN <<c.diagScore, DirDiag>> ELSE <<0, DirNone>>
        s2 == IF c.up > s1[1] THEN <<c.up, DirUp>> ELSE s1
        s3 == IF c.left > s2[1] THEN <<c.left, DirLeft>> ELSE s2
    IN  s3

\* SwChoose without the comparison of the left candidate
SwChooseNoLeft(c) ==
    LET s1 == IF c.diagScore > 0 THEN <<c.diagScore, DirDiag>> ELSE <<0, DirNone>>
        s2 == IF c.up > s1[1] THEN <<c.up, DirUp>> ELSE s1
    IN  s2

\* localMaxScore and direction chosen by the sequential fill
SwChoose(c) ==
    LET s1 == IF c.diagScore > 0 THEN <<c.diagScore, DirDiag>> ELSE <<0, DirNone>>
        s2 == IF c.up > s1[1] THEN <<c.up, DirUp>> ELSE s1
        s3 == IF c.left > s2[1] THEN <<c.left, DirLeft>> ELSE s2
    IN  s3

\* the row-major successor of loop position (i,j)
LoopNext(i, j, len2) == IF j < len2 THEN <<i, j + 1>> ELSE <<i + 1, 1>>

\* smithWaterman entry: the matrices are allocated zero-filled and the fill
\* loop starts at (1,1)
SwEnter(h) ==
    [h EXCEPT !.score = ZeroArray((h.len1 + 1) * (h.len2 + 1)),
              !.dir = ZeroArray((h.len1 + 1) * (h.len2 + 1)),
              !.i = 1, !.j = 1]

\* one iteration of the fill loop body; the last one enters the best-cell
\* scan (maxScore = 0, max_i = max_j = 0, i = j = 1)
FillIter(h) ==
    LET c == SwChoose(SwCandidates(h, h.i, h.j))
        n == LoopNext(h.i, h.j, h.len2)
        last == n[1] > h.len1
    IN  [h EXCEPT !.score[Idx(h.i, h.j, h.len2)] = c[1],
                  !.dir[Idx(h.i, h.j, h.len2)] = c[2],
                  !.i = IF last THEN 1 ELSE n[1],
                  !.j = IF last THEN 1 ELSE n[2],
                  !.pc = IF last THEN "scan" ELSE "fill"]

\* ScanIter with val >= maxScore: the last maximum wins
ScanIterGeq(h) ==
    LET val == h.score[Idx(h.i, h.j, h.len2)]
        better == val >= h.maxScore
        ms == IF better THEN val ELSE h.maxScore
        mi == IF better THEN h.i ELSE h.max_i
        mj == IF better THEN h.j ELSE h.max_j
        n == LoopNext(h.i, h.j, h.len2)
        last == n[1] > h.len1
    IN  [h EXCEPT !.maxScore = ms, !.max_i = mi, !.max_j = mj,
                  !.i = IF last THEN 0 ELSE n[1],
                  !.j = IF last THEN 0 ELSE n[2],
                  !.ti = IF last THEN mi ELSE 0,
                  !.tj = IF last THEN mj ELSE 0,
                  !.pc = IF last THEN "trace" ELSE "scan"]

\* one iteration of the best-cell scan; the last one starts the traceback
\* at (max_i, max_j)
ScanIter(h) ==
    LET val == h.score[Idx(h.i, h.j, h.len2)]
        better == val > h.maxScore
        ms == IF better THEN val ELSE h.maxScore
        mi == IF better THEN h.i ELSE h.max_i
        mj == IF better THEN h.j ELSE h.max_j
        n == LoopNext(h.i, h.j, h.len2)
        last == n[1] > h.len1
    IN  [h EXCEPT !.maxScore = ms, !.max_i = mi, !.max_j = mj,
                  !.i = IF last THEN 0 ELSE n[1],
                  !.j = IF last THEN 0 ELSE n[2],
                  !.ti = IF last THEN mi ELSE 0,
                  !.tj = IF last THEN mj ELSE 0,
                  !.pc = IF last THEN "trace" ELSE "scan"]

\* TraceColumn with the LEFT branch pushing a gap onto both strings
TraceColumnDoubleGap(d, c1, c2) ==
    CASE d = DirDiag -> <<c1, c2>>
      [] d = DirUp -> <<c1, "-">>
      [] d = DirLeft -> <<"-", "-">>

\* the column a traceback step emits for direction d: <<to align1, to align2>>
TraceColumn(d, c1, c2) ==
    CASE d = DirDiag -> <<c1, c2>>
      [] d = DirUp -> <<c1, "-">>
      [] d = DirLeft -> <<"-", c2>>

\* TraceMove where a step up also moves one column to the left
TraceMoveUpDiag(d, ti, tj) ==
    CASE d = DirDiag -> <<ti - 1, tj - 1>>
      [] d = DirUp -> <<ti - 1, tj - 1>>
      [] d = DirLeft -> <<ti, tj - 1>>

\* the cell a traceback step moves to
TraceMove(d, ti, tj) ==
    CASE d = DirDiag -> <<ti - 1, tj - 1>>
      [] d = DirUp -> <<ti - 1, tj>>
      [] d = DirLeft -> <<ti, tj - 1>>

\* TraceIter without the test of the score of the cell moved to
TraceIterNoZeroStop(h) ==
    IF ~(h.ti > 0 /\ h.tj > 0)
    THEN [h EXCEPT !.pc = "reverse"]
    ELSE
        LET d == h.dir[Idx(h.ti, h.tj, h.len2)]
        IN  IF d = DirNone \/ d \notin {DirDiag, DirUp, DirLeft}
            THEN [h EXCEPT !.pc = "reverse"]
            ELSE
                LET col == TraceColumn(d, At(h.seq1, h.ti - 1), At(h.seq2, h.tj - 1))
                    to == TraceMove(d, h.ti, h.tj)
                IN  [h EXCEPT !.align1 = Append(h.align1, col[1]),
                              !.align2 = Append(h.align2, col[2]),
                              !.path = Append(h.path, <<h.ti, h.tj>>),
                              !.ti = to[1], !.tj = to[2]]

\* one iteration of the traceback loop, its loop test included; path records
\* the cells a column was emitted from
TraceIter(h) ==
    IF ~(h.ti > 0 /\ h.tj > 0)
    THEN [h EXCEPT !.pc = "reverse"]
    ELSE
        LET d == h.dir[Idx(h.ti, h.tj, h.len2)]
        IN  IF d = DirNone \/ d \notin {DirDiag, DirUp, DirLeft}
            THEN [h EXCEPT !.pc = "reverse"]
            ELSE
                LET col == TraceColumn(d, At(h.seq1, h.ti - 1), At(h.seq2, h.tj - 1))
                    to == TraceMove(d, h.ti, h.tj)
                IN  [h EXCEPT !.align1 = Append(h.align1, col[1]),
                              !.align2 = Append(h.align2, col[2]),
                              !.path = Append(h.path, <<h.ti, h.tj>>),
                              !.ti = to[1], !.tj = to[2],
                              !.pc = IF h.score[Idx(to[1], to[2], h.len2)] = 0
                                     THEN "reverse" ELSE "trace"]

\* std::reverse of both aligned strings
ReverseIter(h) ==
    [h EXCEPT !.align1 = Reverse(h.align1), !.align2 = Reverse(h.align2),
              !.pc = "render"]

\* RenderGaps replacing nothing
RenderGapsNone(s) == s

\* '-' replaced by '.'
RenderGaps(s) == [k \in 1..Len(s) |-> IF s[k] = "-" THEN "." ELSE s[k]]

RenderIter(h) ==
    [h EXCEPT !.align1 = RenderGaps(h.align1), !.align2 = RenderGaps(h.align2),
              !.pc = "print"]

\* the character codes of the symbols the model uses
CharCode(c) ==
    CASE c = "-" -> 45
      [] c = "." -> 46
      [] c = "A" -> 65
      [] c = "C" -> 67
      [] c = "G" -> 71
      [] c = "T" -> 84
      [] c = "c" -> 99
      [] c = "z" -> 122

\* std::toupper on a character code (C locale)
ToUpper(code) == IF code >= 97 /\ code <= 122 THEN code - 32 ELSE code

\* GcgSum with the multiplier i + 1, never wrapping at 57
RECURSIVE GcgSumNoWrap(_, _, _)
GcgSumNoWrap(s, i, check) ==
    IF i >= Len(s) THEN check
    ELSE GcgSumNoWrap(s, i + 1, check + (i + 1) * ToUpper(CharCode(At(s, i))))

GcgChecksumNoWrap(s) == GcgSumNoWrap(s, 0, 0) % 10000

\* the loop of gcgChecksum from index i with running sum check
RECURSIVE GcgSum(_, _, _)
GcgSum(s, i, check) ==
    IF i >= Len(s) THEN check
    ELSE GcgSum(s, i + 1, check + ((i % 57) + 1) * ToUpper(CharCode(At(s, i))))

\* gcgChecksum: the sum is never negative, so % is the C remainder
GcgChecksum(s) == GcgSum(s, 0, 0) % 10000

\* printMSFAlignment and the return from main: the checksums of the two
\* aligned strings, the pairwise checksum, the report, exit code 0
PrintIter(h) ==
    LET c1 == GcgChecksum(h.align1)
        c2 == GcgChecksum(h.align2)
    IN  [h EXCEPT !.check1 = c1, !.check2 = c2,
                  !.globalCheck = (c1 + c2) % 10000,
                  !.reported = TRUE, !.pc = "exit", !.rc = 0]

CpuPrint ==
    /\ cpu.pc = "print"
    /\ cpu' = PrintIter(cpu)
    /\ UNCHANGED <<file1, file2, policy, gpu, d_score, d_dir, d_writes, threads>>

CpuMain ==
    /\ cpu.pc = "main"
    /\ cpu' = LET h == SwReadInputs(cpu)
              IN  IF h.pc = "fill" THEN SwEnter(h) ELSE h
    /\ UNCHANGED <<file1, file2, policy, gpu, d_score, d_dir, d_writes, threads>>

CpuFill ==
    /\ cpu.pc = "fill"
    /\ cpu' = FillIter(cpu)
    /\ UNCHANGED <<file1, file2, policy, gpu, d_score, d_dir, d_writes, threads>>

CpuScan ==
    /\ cpu.pc = "scan"
    /\ cpu' = ScanIter(cpu)
    /\ UNCHANGED <<file1, file2, policy, gpu, d_score, d_dir, d_writes, threads>>

CpuTrace ==
    /\ cpu.pc = "trace"
    /\ cpu' = TraceIter(cpu)
    /\ UNCHANGED <<file1, file2, policy, gpu, d_score, d_dir, d_writes, threads>>

CpuReverse ==
    /\ cpu.pc = "reverse"
    /\ cpu' = ReverseIter(cpu)
    /\ UNCHANGED <<file1, file2, policy, gpu, d_score, d_dir, d_writes, threads>>

CpuRender ==
    /\ cpu.pc = "render"
    /\ cpu' = RenderIter(cpu)
    /\ UNCHANGED <<file1, file2, policy, gpu, d_score, d_dir, d_writes, threads>>

\* ------------------------------------------------------ CUDA program
\* main up to the device allocation: both files opened and neither
\* sequence empty; otherwise exit code 1 before anything is allocated
\* CudaReadInputs without the test for an empty sequence
CudaReadInputsNoEmptyCheck(h) ==
    IF ~file1.open \/ ~file2.open
    THEN [h EXCEPT !.pc = "exit", !.rc = 1]
    ELSE [h EXCEPT !.pc = "launch", !.diag = 2,
                   !.seq1 = file1.residues, !.seq2 = file2.residues,
                   !.len1 = Len(file1.residues), !.len2 = Len(file2.residues)]

CudaReadInputs(h) ==
    IF ~file1.open \/ ~file2.open
    THEN [h EXCEPT !.pc = "exit", !.rc = 1]
    ELSE IF Len(file1.residues) = 0 \/ Len(file2.residues) = 0
    THEN [h EXCEPT !.pc = "exit", !.rc = 1]
    ELSE [h EXCEPT !.pc = "launch", !.diag = 2,
                   !.seq1 = file1.residues, !.seq2 = file2.residues,
                   !.len1 = Len(file1.residues), !.len2 = Len(file2.residues)]

\* first and last row index of anti-diagonal diag, as the driver derives them
StartI(diag, len2) ==
    LET s == IF diag > len2 + 1 THEN diag - (len2 + 1) + 1 ELSE 1
    IN  IF s < 1 THEN 1 ELSE s

EndI(diag, len1) ==
    LET e == IF diag - 1 < len1 THEN diag - 1 ELSE len1
    IN  IF e > len1 THEN len1 ELSE e

\* Blocks rounding down: totalCells / threadsPerBlock
BlocksFloor(totalCells) == totalCells \div ThreadsPerBlock

\* blocks = (totalCells + threadsPerBlock - 1) / threadsPerBlock
Blocks(totalCells) == (totalCells + ThreadsPerBlock - 1) \div ThreadsPerBlock

\* ++diag and the loop test diag <= maxDiag
DiagNext(h) ==
    [h EXCEPT !.diag = h.diag + 1,
              !.pc = IF h.diag + 1 <= h.len1 + h.len2 THEN "launch" ELSE "copy"]

\* a thread as the launch creates it: the kernel arguments and empty registers
NewThread(diag, start_i, end_i) ==
    [diag |-> diag, start_i |-> start_i, end_i |-> end_i, st |-> "start",
     up |-> 0, left |-> 0, diagScore |-> 0, rd |-> {}, wr |-> {}]

\* KernelI without the block offset: i = start_i + threadIdx.x
KernelIThreadOnly(start_i, blockIdx, threadIdx) == start_i + threadIdx

\* i = start_i + blockIdx.x * blockDim.x + threadIdx.x
KernelI(start_i, blockIdx, threadIdx) ==
    start_i + (blockIdx * ThreadsPerBlock + threadIdx)

\* the three candidates of cell (i,j) as the kernel loads them
KernelCandidates(i, j) ==
    [up |-> d_score[Idx(i - 1, j, gpu.len2)] + policy.gapScore,
     left |-> d_score[Idx(i, j - 1, gpu.len2)] + policy.gapScore,
     diagScore |-> d_score[Idx(i - 1, j - 1, gpu.len2)]
                    + (IF At(gpu.seq1, i - 1) = At(gpu.seq2, j - 1)
                       THEN policy.matchScore ELSE policy.mismatchScore)]

\* KernelChoose with the left candidate compared before the up candidate
KernelChooseLeftFirst(c) ==
    LET s1 == IF c.diagScore > 0 THEN <<c.diagScore, DirDiag>> ELSE <<0, DirNone>>
        s2 == IF c.left > s1[1] THEN <<c.left, DirLeft>> ELSE s1
        s3 == IF c.up > s2[1] THEN <<c.up, DirUp>> ELSE s2
    IN  s3

\* maxScore and direction chosen by the kernel
KernelChoose(c) ==
    LET s1 == IF c.diagScore > 0 THEN <<c.diagScore, DirDiag>> ELSE <<0, DirNone>>
        s2 == IF c.up > s1[1] THEN <<c.up, DirUp>> ELSE s1
        s3 == IF c.left > s2[1] THEN <<c.left, DirLeft>> ELSE s2
    IN  s3

\* the driver without its barrier: it goes on while threads are running
SyncReturnsEarly == TRUE

\* cudaDeviceSynchronize returns once every launched thread has finished
SyncReturns == \A k \in DOMAIN threads : threads[k].st = "done"

GpuMain ==
    /\ cpu.pc = "exit"
    /\ gpu.pc = "main"
    /\ LET h == CudaReadInputs(gpu)
           n == (h.len1 + 1) * (h.len2 + 1)
       IN  /\ gpu' = h
           /\ IF h.pc = "launch"
              THEN /\ d_score' = ZeroArray(n)
                   /\ d_dir' = ZeroArray(n)
                   /\ d_writes' = ZeroArray(n)
              ELSE UNCHANGED <<d_score, d_dir, d_writes>>
    /\ UNCHANGED <<file1, file2, policy, cpu, threads>>

\* one iteration of the driver loop up to the kernel launch
GpuLaunch ==
    /\ gpu.pc = "launch"
    /\ LET start_i == StartI(gpu.diag, gpu.len2)
           end_i == EndI(gpu.diag, gpu.len1)
           blocks == Blocks(end_i - start_i + 1)
           new == {<<gpu.diag, b, t>> :
                       b \in 0..(blocks - 1), t \in 0..(ThreadsPerBlock - 1)}
       IN  IF start_i > gpu.len1 \/ start_i > end_i
           THEN /\ gpu' = DiagNext(gpu)
                /\ UNCHANGED threads
           ELSE /\ gpu' = [gpu EXCEPT !.pc = "sync"]
                /\ threads' = [k \in DOMAIN threads \cup new |->
                                 IF k \in new
                                 THEN NewThread(gpu.diag, start_i, end_i)
                                 ELSE threads[k]]
    /\ UNCHANGED <<file1, file2, policy, cpu, d_score, d_dir, d_writes>>

GpuSync ==
    /\ gpu.pc = "sync"
    /\ SyncReturns
    /\ gpu' = DiagNext(gpu)
    /\ threads' = [k \in {x \in DOMAIN threads : threads[x].st # "done"} |->
                     threads[k]]
    /\ UNCHANGED <<file1, file2, policy, cpu, d_score, d_dir, d_writes>>

\* a thread beyond the diagonal returns at once
KernelReturn(k) ==
    /\ threads[k].st = "start"
    /\ KernelI(threads[k].start_i, k[2], k[3]) > threads[k].end_i
    /\ threads' = [threads EXCEPT ![k].st = "done"]
    /\ UNCHANGED <<file1, file2, policy, cpu, gpu, d_score, d_dir, d_writes>>

\* the kernel's three loads
KernelLoad(k) ==
    /\ threads[k].st = "start"
    /\ LET i == KernelI(threads[k].start_i, k[2], k[3])
           j == threads[k].diag - i
           c == KernelCandidates(i, j)
       IN  /\ i <= threads[k].end_i
           /\ threads' = [threads EXCEPT
                            ![k].st = "loaded",
                            ![k].up = c.up, ![k].left = c.left,
                            ![k].diagScore = c.diagScore,
                            ![k].rd = {Idx(i - 1, j, gpu.len2),
                                       Idx(i, j - 1, gpu.len2),
                                       Idx(i - 1, j - 1, gpu.len2)}]
    /\ UNCHANGED <<file1, file2, policy, cpu, gpu, d_score, d_dir, d_writes>>

\* the kernel's choice and its two stores
KernelStore(k) ==
    /\ threads[k].st = "loaded"
    /\ LET i == KernelI(threads[k].start_i, k[2], k[3])
           j == threads[k].diag - i
           c == KernelChoose(threads[k])
           x == Idx(i, j, gpu.len2)
       IN  /\ d_score' = [d_score EXCEPT ![x] = c[1]]
           /\ d_dir' = [d_dir EXCEPT ![x] = c[2]]
           /\ d_writes' = [d_writes EXCEPT ![x] = @ + 1]
           /\ threads' = [threads EXCEPT
                            ![k].st = "done", ![k].up = 0, ![k].left = 0,
                            ![k].diagScore = 0, ![k].wr = {x}]
    /\ UNCHANGED <<file1, file2, policy, cpu, gpu>>

\* the matrices copied back to the host; the copy waits for the kernels
GpuCopy ==
    /\ gpu.pc = "copy"
    /\ \A k \in DOMAIN threads : threads[k].st = "done"
    /\ gpu' = [gpu EXCEPT !.score = d_score, !.dir = d_dir,
                          !.i = 1, !.j = 1, !.pc = "scan"]
    /\ UNCHANGED <<file1, file2, policy, cpu, d_score, d_dir, d_writes, threads>>

GpuScan ==
    /\ gpu.pc = "scan"
    /\ gpu' = ScanIter(gpu)
    /\ UNCHANGED <<file1, file2, policy, cpu, d_score, d_dir, d_writes, threads>>

GpuTrace ==
    /\ gpu.pc = "trace"
    /\ gpu' = TraceIter(gpu)
    /\ UNCHANGED <<file1, file2, policy, cpu, d_score, d_dir, d_writes, threads>>

GpuReverse ==
    /\ gpu.pc = "reverse"
    /\ gpu' = ReverseIter(gpu)
    /\ UNCHANGED <<file1, file2, policy, cpu, d_score, d_dir, d_writes, threads>>

GpuRender ==
    /\ gpu.pc = "render"
    /\ gpu' = RenderIter(gpu)
    /\ UNCHANGED <<file1, file2, policy, cpu, d_score, d_dir, d_writes, threads>>

GpuPrint ==
    /\ gpu.pc = "print"
    /\ gpu' = PrintIter(gpu)
    /\ UNCHANGED <<file1, file2, policy, cpu, d_score, d_dir, d_writes, threads>>

Next ==
    \/ CpuMain
    \/ CpuFill
    \/ CpuScan
    \/ CpuTrace
    \/ CpuReverse
    \/ CpuRender
    \/ CpuPrint
    \/ GpuMain
    \/ GpuLaunch
    \/ GpuSync
    \/ GpuCopy
    \/ GpuScan
    \/ GpuTrace
    \/ GpuReverse
    \/ GpuRender
    \/ GpuPrint
    \/ \E k \in DOMAIN threads :
          \/ KernelReturn(k)
          \/ KernelLoad(k)
          \/ KernelStore(k)

Spec == Init /\ [][Next]_vars

\* The triples smithWaterman is called with for the traceback: the default,
\* one with a positive gap score, and one where gaps are dearer than
\* mismatches, so that a mismatch column enters the best alignment of short
\* inputs
TracePolicies ==
    {DefaultPolicy,
     [matchScore |-> 1, mismatchScore |-> 0, gapScore |-> 1],
     [matchScore |-> 2, mismatchScore |-> -1, gapScore |-> -3]}

InitT ==
    /\ file1 \in Files
    /\ file2 \in Files
    /\ policy \in TracePolicies
    /\ cpu = HostInit
    /\ gpu = HostInit
    /\ d_score = Empty
    /\ d_dir = Empty
    /\ d_writes = Empty
    /\ threads = Empty

\* each program is a process that runs until it returns, and every launched
\* kernel thread is run to its end: a step that can be taken is taken
FairSpec == InitT /\ [][Next]_vars /\ WF_vars(Next)

\* Scenario A of the specification: fixed inputs, default scoring triple
ScenarioSeq1 == <<"A", "C", "A", "C", "A", "C", "T", "A">>
ScenarioSeq2 == <<"A", "G", "C", "A", "C", "A", "C", "A">>

InitA ==
    /\ file1 = [open |-> TRUE, residues |-> ScenarioSeq1]
    /\ file2 = [open |-> TRUE, residues |-> ScenarioSeq2]
    /\ policy = DefaultPolicy
    /\ cpu = HostInit
    /\ gpu = HostInit
    /\ d_score = Empty
    /\ d_dir = Empty
    /\ d_writes = Empty
    /\ threads = Empty

SpecA == InitA /\ [][Next]_vars

\* The serializer on its own: aligned strings of up to MaxCkLen symbols,
\* each a short pattern repeated, handed to both programs' print step
CkPatterns == {<<"A">>, <<"c", ".">>, <<".", "T">>, <<"z">>}
Repeat(p, n) == [k \in 1..n |-> p[((k - 1) % Len(p)) + 1]]

InitCk ==
    /\ file1 = [open |-> TRUE, residues |-> <<"A">>]
    /\ file2 = [open |-> TRUE, residues |-> <<"A">>]
    /\ policy = DefaultPolicy
    /\ cpu \in {[HostInit EXCEPT !.pc = "print",
                                 !.align1 = Repeat(p1, n),
                                 !.align2 = Repeat(p2, n)] :
                    p1 \in CkPatterns, p2 \in CkPatterns, n \in 0..MaxCkLen}
    /\ gpu = cpu
    /\ d_score = Empty
    /\ d_dir = Empty
    /\ d_writes = Empty
    /\ threads = Empty

NextCk ==
    \/ CpuPrint
    \/ GpuPrint

SpecCk == InitCk /\ [][NextCk]_vars

\* Sizes and indices at the width of the source's int, on lengths alone.
\* The sum of two ints, wrapped to 32 bits two's complement
AddWrap(x, y) ==
    IF x > 0 /\ y > IntMax - x THEN (x - IntMax - 1) + (y - IntMax - 1)
    ELSE IF x < 0 /\ y < (-IntMax - 1) - x THEN (x + IntMax + 1) + (y + IntMax + 1)
    ELSE x + y

\* the product of an int and a non-negative int, wrapped to 32 bits
RECURSIVE MulWrap(_, _)
MulWrap(a, b) ==
    IF b = 0 THEN 0
    ELSE LET h == MulWrap(a, b \div 2)
             d == AddWrap(h, h)
         IN  IF b % 2 = 1 THEN AddWrap(d, a) ELSE d

MulFits(a, b) == b = 0 \/ a <= IntMax \div b
AddFits(x, y) == y <= IntMax - x

\* what an int expression a * b + c of non-negative operands can produce:
\* its value when every step is representable; otherwise signed overflow is
\* undefined, and the build either wraps or traps
IntMulAdd(a, b, c) ==
    IF MulFits(a, b) /\ AddFits(a * b, c)
    THEN {[trap |-> FALSE, val |-> a * b + c]}
    ELSE {[trap |-> FALSE, val |-> AddWrap(MulWrap(a, b), c)],
          [trap |-> TRUE, val |-> 0]}

\* std::vector<int> score((len1+1) * (len2+1)): the element count
SizeIter(h, out, next) ==
    IF out.trap THEN [h EXCEPT !.trapped = TRUE, !.pc = "exit"]
    ELSE [h EXCEPT !.cells = out.val, !.sized = TRUE, !.pc = next]

\* score[i * (len2+1) + j] at the last cell, i = len1 and j = len2
IndexIter(h, out, next) ==
    IF out.trap THEN [h EXCEPT !.trapped = TRUE, !.pc = "exit"]
    ELSE [h EXCEPT !.index = out.val, !.indexed = TRUE, !.pc = next]

CpuSize ==
    /\ cpu.pc = "size"
    /\ \E out \in IntMulAdd(cpu.len1 + 1, cpu.len2 + 1, 0) :
            cpu' = SizeIter(cpu, out, "index")
    /\ UNCHANGED <<file1, file2, policy, gpu, d_score, d_dir, d_writes, threads>>

CpuIndex ==
    /\ cpu.pc = "index"
    /\ \E out \in IntMulAdd(cpu.len1, cpu.len2 + 1, cpu.len2) :
            cpu' = IndexIter(cpu, out, "exit")
    /\ UNCHANGED <<file1, file2, policy, gpu, d_score, d_dir, d_writes, threads>>

GpuIndex ==
    /\ gpu.pc = "index"
    /\ \E out \in IntMulAdd(gpu.len1, gpu.len2 + 1, gpu.len2) :
            gpu' = IndexIter(gpu, out, "size")
    /\ UNCHANGED <<file1, file2, policy, cpu, d_score, d_dir, d_writes, threads>>

GpuSize ==
    /\ gpu.pc = "size"
    /\ \E out \in IntMulAdd(gpu.len1 + 1, gpu.len2 + 1, 0) :
            gpu' = SizeIter(gpu, out, "exit")
    /\ UNCHANGED <<file1, file2, policy, cpu, d_score, d_dir, d_writes, threads>>

\* sequence lengths up to tens of thousands of residues
Lengths == {1, 255, 1000, 10000, 30000, 46340, 46341, 50000, 65535, 99999}

InitW ==
    /\ file1 = [open |-> TRUE, residues |-> <<"A">>]
    /\ file2 = [open |-> TRUE, residues |-> <<"A">>]
    /\ policy = DefaultPolicy
    /\ cpu \in {[HostInit EXCEPT !.pc = "size", !.len1 = n1, !.len2 = n2] :
                    n1 \in Lengths, n2 \in Lengths}
    /\ gpu = [cpu EXCEPT !.pc = "index"]
    /\ d_score = Empty
    /\ d_dir = Empty
    /\ d_writes = Empty
    /\ threads = Empty

NextW ==
    \/ CpuSize
    \/ CpuIndex
    \/ GpuIndex
    \/ GpuSize

SpecW == InitW /\ [][NextW]_vars

\* ------------------------------------------------------- properties
Interior(h) == (1..h.len1) \X (1..h.len2)
Ok(h) == h.pc = "exit" /\ h.rc = 0
\* the host matrices of h are filled
Filled(h) == h.pc \in {"scan", "trace", "reverse", "render", "print"} \/ Ok(h)
\* the device matrices are filled
DeviceFilled == gpu.pc = "copy" \/ Filled(gpu)
Range(s) == {s[k] : k \in DOMAIN s}
\* the CUDA program has not started: the state is one of the sequential run
SwRunning == gpu.pc = "main"

\* C1: for every input pair, every scoring triple and every interleaving of
\* the kernel threads, the wavefront fill leaves score and direction matrices
\* equal, cell for cell, to those of the row-major fill, and the best cell,
\* the score and the two aligned strings are equal as well.
C1_Equivalence ==
    /\ (DeviceFilled /\ Filled(cpu)) =>
          /\ d_score = cpu.score
          /\ d_dir = cpu.dir
    /\ (Filled(gpu) /\ Filled(cpu)) =>
          /\ gpu.score = cpu.score
          /\ gpu.dir = cpu.dir
    /\ (Ok(gpu) /\ Ok(cpu)) =>
          /\ gpu.maxScore = cpu.maxScore
          /\ gpu.max_i = cpu.max_i
          /\ gpu.max_j = cpu.max_j
          /\ gpu.align1 = cpu.align1
          /\ gpu.align2 = cpu.align2

\* both programs finished on inputs whose widest anti-diagonal held three
\* concurrent units, with a gapped alignment under a non-default triple
C1_Witness ==
    /\ Ok(cpu)
    /\ Ok(gpu)
    /\ cpu.len1 = 3
    /\ cpu.len2 = 3
    /\ policy # DefaultPolicy
    /\ "." \in Range(gpu.align1) \cup Range(gpu.align2)

Max2(a, b) == IF a >= b THEN a ELSE b
Max4(a, b, c, d) == Max2(Max2(a, b), Max2(c, d))

\* the candidates of cell (i,j) read off matrix sc
RuleCandidates(sc, h, i, j) ==
    [diagScore |-> sc[Idx(i - 1, j - 1, h.len2)]
                    + (IF h.seq1[i] = h.seq2[j]
                       THEN policy.matchScore ELSE policy.mismatchScore),
     up |-> sc[Idx(i - 1, j, h.len2)] + policy.gapScore,
     left |-> sc[Idx(i, j - 1, h.len2)] + policy.gapScore]

RuleBest(c) == Max4(0, c.diagScore, c.up, c.left)

\* first of DIAG, UP, LEFT whose candidate equals the best score; NONE at 0
RuleDir(c, best) ==
    IF best = 0 THEN DirNone
    ELSE IF c.diagScore = best THEN DirDiag
    ELSE IF c.up = best THEN DirUp
    ELSE DirLeft

RuleHolds(sc, dr, h) ==
    \A p \in Interior(h) :
        LET c == RuleCandidates(sc, h, p[1], p[2])
            best == RuleBest(c)
        IN  /\ sc[Idx(p[1], p[2], h.len2)] = best
            /\ dr[Idx(p[1], p[2], h.len2)] = RuleDir(c, best)

\* C3: after the fill every interior cell holds max(0, diag, up, left) and the
\* first of DIAG, UP, LEFT whose candidate equals it (NONE when it is 0), in
\* the sequential fill and in the kernel's.  The sequential program's
\* matrices are looked at in that program's own states (no later state
\* changes cpu).
C3_UpdateRule ==
    /\ (Filled(cpu) /\ SwRunning) => RuleHolds(cpu.score, cpu.dir, cpu)
    /\ DeviceFilled => RuleHolds(d_score, d_dir, gpu)

\* both fills done, with a cell where two candidates tie at a positive best
\* score and a cell of best score 0
C3_Witness ==
    /\ Filled(cpu)
    /\ DeviceFilled
    /\ \E p \in Interior(gpu) :
          LET c == RuleCandidates(d_score, gpu, p[1], p[2])
          IN  /\ RuleBest(c) > 0
              /\ c.up = RuleBest(c)
              /\ c.diagScore = RuleBest(c) \/ c.left = RuleBest(c)
    /\ \E p \in Interior(gpu) : d_score[Idx(p[1], p[2], gpu.len2)] = 0

Front(x) == SubSeq(x, 1, Len(x) - 1)
PairScore(a, b) == IF a = b THEN policy.matchScore ELSE policy.mismatchScore

\* the best sum of column scores over all gapped alignments of x with y,
\* enumerated by the last column: residue/residue, residue/gap, gap/residue
RECURSIVE BestGlobal(_, _)
BestGlobal(x, y) ==
    IF x = <<>> THEN Len(y) * policy.gapScore
    ELSE IF y = <<>> THEN Len(x) * policy.gapScore
    ELSE Max2(BestGlobal(Front(x), Front(y)) + PairScore(x[Len(x)], y[Len(y)]),
              Max2(BestGlobal(Front(x), y) + policy.gapScore,
                   BestGlobal(x, Front(y)) + policy.gapScore))

\* the contiguous substrings of x, the empty one included
Substrings(x) ==
    {<<>>} \cup {SubSeq(x, a, b) : <<a, b>> \in {q \in (1..Len(x)) \X (1..Len(x)) : q[1] <= q[2]}}

\* the optimal local alignment score: 0 when no alignment scores above 0
OptimalLocal(x, y) ==
    LET scores == {BestGlobal(u, v) : <<u, v>> \in Substrings(x) \X Substrings(y)}
    IN  CHOOSE m \in scores \cup {0} : \A w \in scores \cup {0} : m >= w

\* C2: with match=+2, mismatch=-1, gap=-1 the score either program reports
\* is the maximum, over all pairs of contiguous substrings and all gapped
\* alignments of the pair, of the sum of column scores (0 when none is
\* positive).  Stated at the state each program exits in.
C2_OptimalScore ==
    /\ (Ok(cpu) /\ gpu.pc = "main" /\ policy = DefaultPolicy) =>
          cpu.maxScore = OptimalLocal(cpu.seq1, cpu.seq2)
    /\ (Ok(gpu) /\ policy = DefaultPolicy) =>
          gpu.maxScore = OptimalLocal(gpu.seq1, gpu.seq2)

\* the sequential program reports a score that only an alignment with a gap
\* in seq1 attains ("AA" against "ACA": 2 - 1 + 2)
C2_Witness ==
    /\ Ok(cpu)
    /\ gpu.pc = "main"
    /\ policy = DefaultPolicy
    /\ cpu.seq1 = <<"A", "A">>
    /\ cpu.seq2 = <<"A", "C", "A">>
    /\ cpu.maxScore = 3

CellDiag(c) == Row(c, gpu.len2) + Col(c, gpu.len2)
Boundary(c) == Row(c, gpu.len2) = 0 \/ Col(c, gpu.len2) = 0

\* C4: while any unit of anti-diagonal d is in flight (started or not), every
\* interior cell of the earlier anti-diagonals has been written and no cell
\* of a later one has; the units in flight all belong to the one diagonal
\* the driver is waiting on.
C4_Barrier ==
    (DOMAIN threads # {}) =>
        /\ gpu.pc = "sync"
        /\ \A k \in DOMAIN threads : threads[k].diag = gpu.diag /\ k[1] = gpu.diag
        /\ \A p \in Interior(gpu) :
              LET w == d_writes[Idx(p[1], p[2], gpu.len2)]
              IN  /\ (p[1] + p[2] < gpu.diag) => w = 1
                  /\ (p[1] + p[2] > gpu.diag) => w = 0

\* on the fourth anti-diagonal one unit has stored, one has loaded and one
\* has not started
C4_Witness ==
    \E k1, k2, k3 \in DOMAIN threads :
        /\ k1[1] = 4
        /\ threads[k1].st = "done" /\ threads[k1].wr # {}
        /\ threads[k2].st = "loaded"
        /\ threads[k3].st = "start"
        /\ KernelI(threads[k3].start_i, k3[2], k3[3]) <= threads[k3].end_i

\* C5: each unit writes only its own cell (i, d-i); every cell it reads is a
\* boundary cell or lies on anti-diagonal d-1 or d-2 and was written exactly
\* once before; no two units in flight touch the same cell with one writing.
C5_NoDataRace ==
    /\ \A k \in DOMAIN threads :
          LET t == threads[k]
              i == t.start_i + k[2] * ThreadsPerBlock + k[3]
          IN  /\ t.wr \subseteq {Idx(i, t.diag - i, gpu.len2)}
              /\ \A c \in t.rd :
                    \/ Boundary(c)
                    \/ /\ CellDiag(c) \in {t.diag - 1, t.diag - 2}
                       /\ d_writes[c] = 1
    /\ \A k1, k2 \in DOMAIN threads :
          k1 # k2 =>
             threads[k1].wr \cap (threads[k2].rd \cup threads[k2].wr) = {}

\* three units of one launch have all loaded and stored
C5_Witness ==
    \E k1, k2, k3 \in DOMAIN threads :
        /\ k1 # k2 /\ k2 # k3 /\ k1 # k3
        /\ \A k \in {k1, k2, k3} : threads[k].rd # {} /\ threads[k].wr # {}
        /\ \E c \in threads[k1].rd : ~Boundary(c)

NonNegative(a) == \A k \in DOMAIN a : a[k] >= 0
\* the best-cell scan of h is over
Scanned(h) == h.pc \in {"trace", "reverse", "render", "print"} \/ Ok(h)
\* the traceback loop of h is over
Traced(h) == h.pc \in {"reverse", "render", "print"} \/ Ok(h)

\* C6: every score in every matrix is >= 0 in every state; every cell a
\* column was emitted from has a positive score; the walk continues only on
\* a cell of positive score and a direction, and where it has stopped the
\* cell has score 0 or direction NONE.
C6_NonNegativeAndStop ==
    /\ NonNegative(d_score)
    /\ \A h \in {cpu, gpu} :
          /\ NonNegative(h.score)
          /\ \A n \in DOMAIN h.path :
                h.score[Idx(h.path[n][1], h.path[n][2], h.len2)] > 0
          /\ (h.pc = "trace" /\ h.path # <<>>) =>
                /\ h.score[Idx(h.ti, h.tj, h.len2)] > 0
                /\ h.dir[Idx(h.ti, h.tj, h.len2)] # DirNone
          /\ Traced(h) =>
                \/ h.score[Idx(h.ti, h.tj, h.len2)] = 0
                \/ h.dir[Idx(h.ti, h.tj, h.len2)] = DirNone

\* the sequential traceback emitted two columns and stopped on an interior
\* cell of score 0
C6_Witness ==
    /\ Traced(cpu)
    /\ Len(cpu.path) >= 2
    /\ cpu.ti > 0
    /\ cpu.tj > 0
    /\ cpu.score[Idx(cpu.ti, cpu.tj, cpu.len2)] = 0

InteriorMax(h) ==
    LET vals == {h.score[Idx(p[1], p[2], h.len2)] : p \in Interior(h)}
    IN  CHOOSE m \in vals : \A v \in vals : m >= v

\* the scan's result is the first cell, in row-major order, holding the
\* largest interior score
FirstMaximum(h) ==
    LET mx == InteriorMax(h)
    IN  mx > 0 =>
            /\ h.maxScore = mx
            /\ <<h.max_i, h.max_j>> \in Interior(h)
            /\ h.score[Idx(h.max_i, h.max_j, h.len2)] = mx
            /\ \A p \in Interior(h) :
                  h.score[Idx(p[1], p[2], h.len2)] = mx =>
                      \/ h.max_i < p[1]
                      \/ h.max_i = p[1] /\ h.max_j <= p[2]

\* C7: when the largest interior score is positive, the scan of either
\* program returns a cell holding it, and no cell holding it comes earlier in
\* row-major order.  The sequential program's result is looked at in that
\* program's own states.
C7_FirstMaximum ==
    /\ (Scanned(cpu) /\ SwRunning) => FirstMaximum(cpu)
    /\ Scanned(gpu) => FirstMaximum(gpu)

\* the maximum is attained twice, the later cell in a lower column
C7_Witness ==
    /\ Scanned(gpu)
    /\ InteriorMax(gpu) > 0
    /\ \E p \in Interior(gpu) :
          /\ gpu.score[Idx(p[1], p[2], gpu.len2)] = InteriorMax(gpu)
          /\ p[1] > gpu.max_i
          /\ p[2] < gpu.max_j

IsGap(c) == c \in {"-", "."}
LettersOnly(h) == \A c \in Range(h.seq1) \cup Range(h.seq2) : ~IsGap(c)

\* C8: for letter-only inputs, in every state the two aligned strings have
\* the same length, one symbol each per emitted column, and no index holds a
\* gap in both.
C8_EqualLengthNoDoubleGap ==
    \A h \in {cpu, gpu} :
        LettersOnly(h) =>
            /\ Len(h.align1) = Len(h.align2)
            /\ Len(h.align1) = Len(h.path)
            /\ \A k \in DOMAIN h.align1 :
                  ~(IsGap(h.align1[k]) /\ IsGap(h.align2[k]))

\* a finished alignment with a gap in each string
C8_Witness ==
    /\ Ok(gpu)
    /\ "." \in Range(gpu.align1)
    /\ "." \in Range(gpu.align2)

AllZero(h) == \A p \in Interior(h) : h.score[Idx(p[1], p[2], h.len2)] = 0
InputsValid ==
    /\ file1.open /\ file2.open
    /\ file1.residues # <<>> /\ file2.residues # <<>>

\* C9: a program that exits with every interior cell 0 exits normally, with
\* score 0 and both aligned strings empty; under the default triple this is
\* what happens when the sequences share no residue.
C9_EmptyAlignment ==
    \A h \in {cpu, gpu} :
        /\ (h.pc = "exit" /\ InputsValid /\ AllZero(h)) =>
              /\ h.rc = 0
              /\ h.maxScore = 0
              /\ h.align1 = <<>>
              /\ h.align2 = <<>>
        /\ (h.pc = "exit" /\ InputsValid /\ policy = DefaultPolicy
              /\ Range(file1.residues) \cap Range(file2.residues) = {}) =>
              /\ AllZero(h)
              /\ h.rc = 0
              /\ h.maxScore = 0
              /\ h.align1 = <<>>
              /\ h.align2 = <<>>

\* both programs exited on "AAA" against "CC"
C9_Witness ==
    /\ Ok(cpu)
    /\ Ok(gpu)
    /\ policy = DefaultPolicy
    /\ gpu.seq1 = <<"A", "A", "A">>
    /\ gpu.seq2 = <<"C", "C">>
    /\ AllZero(gpu)
    /\ gpu.align1 = <<>>

ScenarioInputs ==
    /\ file1 = [open |-> TRUE, residues |-> ScenarioSeq1]
    /\ file2 = [open |-> TRUE, residues |-> ScenarioSeq2]
    /\ policy = DefaultPolicy

\* C10: on "ACACACTA" and "AGCACACA" with match=+2, mismatch=-1, gap=-1 each
\* program finds score 12 and the aligned pair "A-CACACTA" / "AGCACAC-A",
\* and exits with the gaps rendered as '.': "A.CACACTA" / "AGCACAC.A".
C10_ScenarioA ==
    ScenarioInputs =>
        \A h \in {cpu, gpu} :
            /\ h.pc = "exit" => h.rc = 0
            /\ Scanned(h) => h.maxScore = 12
            /\ h.pc = "render" =>
                  /\ h.align1 = <<"A", "-", "C", "A", "C", "A", "C", "T", "A">>
                  /\ h.align2 = <<"A", "G", "C", "A", "C", "A", "C", "-", "A">>
            /\ Ok(h) =>
                  /\ h.align1 = <<"A", ".", "C", "A", "C", "A", "C", "T", "A">>
                  /\ h.align2 = <<"A", "G", "C", "A", "C", "A", "C", ".", "A">>

\* both programs have exited on the scenario's inputs
C10_Witness ==
    /\ ScenarioInputs
    /\ Ok(cpu)
    /\ Ok(gpu)
    /\ gpu.maxScore = 12
    /\ Len(gpu.align1) = 9

\* the symbol a letter is the lower case of; any other symbol itself
UpperCase(c) ==
    CASE c = "c" -> "C"
      [] c = "z" -> "Z"
      [] OTHER -> c
SymbolCode(c) == IF c = "Z" THEN 90 ELSE CharCode(c)

\* sum over i in [0, len(s)) of ((i mod 57) + 1) * code(uppercase(s[i])),
\* taken from the last position down
RECURSIVE WeightedSum(_)
WeightedSum(s) ==
    IF s = <<>> THEN 0
    ELSE WeightedSum(Front(s))
            + (((Len(s) - 1) % 57) + 1) * SymbolCode(UpperCase(s[Len(s)]))

\* C11: the checksum of each aligned string is the weighted sum of the codes
\* of its upper-cased symbols, gap symbols counted like any other, mod 10000;
\* the pairwise checksum is the sum of the two mod 10000; all lie in 0..9999.
C11_Checksum ==
    \A h \in {cpu, gpu} :
        h.reported =>
            /\ h.check1 = WeightedSum(h.align1) % 10000
            /\ h.check2 = WeightedSum(h.align2) % 10000
            /\ h.globalCheck = (h.check1 + h.check2) % 10000
            /\ {h.check1, h.check2, h.globalCheck} \subseteq 0..9999

\* a report on strings longer than 57 symbols with gaps and a lower-case
\* letter, whose weighted sum exceeds 10000
C11_Witness ==
    /\ cpu.reported
    /\ Len(cpu.align1) > 57
    /\ cpu.align1[1] = "c"
    /\ cpu.align1[2] = "."
    /\ WeightedSum(cpu.align1) > 10000
    /\ cpu.check1 + cpu.check2 > 10000

\* p is the mathematical product a * b (a, b > 0), stated by division
IsProduct(p, a, b) == p > 0 /\ p % b = 0 /\ p \div b = a

\* C12: for lengths up to tens of thousands, the matrix size (len1+1)*(len2+1)
\* and the cell index i*(len2+1)+j are held exactly by the integer type they
\* are computed in: no run traps and no computed value differs from the
\* mathematical one, in either program.
C12_WideEnough ==
    \A h \in {cpu, gpu} :
        /\ ~h.trapped
        /\ h.sized => IsProduct(h.cells, h.len1 + 1, h.len2 + 1)
        /\ h.indexed =>
              /\ h.index >= h.len2
              /\ IsProduct(h.index - h.len2, h.len1, h.len2 + 1)

\* C13: when an input file cannot be opened or a sequence has no residues,
\* each program goes from its start straight to exit code 1: no host or device
\* matrix is ever allocated or filled, no kernel is launched, no score is
\* found, no aligned string is built and no report is printed.
C13_ErrorOutcome ==
    ~InputsValid =>
        /\ \A h \in {cpu, gpu} :
              /\ h.pc \in {"main", "exit"}
              /\ h.pc = "exit" => h.rc = 1
              /\ h.score = Empty /\ h.dir = Empty
              /\ h.maxScore = 0
              /\ h.align1 = <<>> /\ h.align2 = <<>>
              /\ ~h.reported
        /\ d_score = Empty /\ d_dir = Empty /\ d_writes = Empty
        /\ threads = Empty

\* both programs have ended on an empty second sequence read from files
\* that opened
C13_Witness ==
    /\ file1.open /\ file2.open
    /\ file1.residues # <<>> /\ file2.residues = <<>>
    /\ cpu.pc = "exit" /\ cpu.rc = 1
    /\ gpu.pc = "exit" /\ gpu.rc = 1

Min2(a, b) == IF a < b THEN a ELSE b
\* the row index of unit k
UnitRow(k) == threads[k].start_i + k[2] * ThreadsPerBlock + k[3]

\* C14: a launch for anti-diagonal d, 2 <= d <= len1+len2, has a unit for
\* exactly each i with max(1, d-len2) <= i <= min(len1, d-1), working on
\* (i, d-i); units beyond that range read and write nothing; every access to
\* a matrix or a sequence is in bounds; no cell is written twice, no boundary
\* cell is written, and after the fill every interior cell was written once.
C14_Dispatch ==
    /\ gpu.pc \in {"launch", "sync"} =>
          /\ gpu.diag >= 2 /\ gpu.diag <= gpu.len1 + gpu.len2
          /\ gpu.pc = "sync" <=> DOMAIN threads # {}
    /\ (DOMAIN threads # {}) =>
          LET d == gpu.diag
              lo == Max2(1, d - gpu.len2)
              hi == Min2(gpu.len1, d - 1)
              work == {k \in DOMAIN threads : UnitRow(k) <= hi}
          IN  /\ {UnitRow(k) : k \in work} = lo..hi
              /\ Cardinality(work) = hi - lo + 1
              /\ \A k \in DOMAIN threads :
                    LET t == threads[k]
                        i == UnitRow(k)
                        j == d - i
                    IN  /\ t.start_i = lo /\ t.end_i = hi /\ t.diag = d
                        /\ k \notin work => t.rd = {} /\ t.wr = {}
                        /\ t.rd \subseteq DOMAIN d_score
                        /\ t.wr \subseteq DOMAIN d_score
                        /\ t.rd # {} =>
                              /\ i - 1 >= 0 /\ i - 1 < Len(gpu.seq1)
                              /\ j - 1 >= 0 /\ j - 1 < Len(gpu.seq2)
                        /\ t.wr # {} => t.wr = {Idx(i, j, gpu.len2)}
    /\ \A c \in DOMAIN d_writes :
          /\ d_writes[c] <= 1
          /\ Boundary(c) => d_writes[c] = 0 /\ d_score[c] = 0 /\ d_dir[c] = DirNone
    /\ DeviceFilled =>
          \A p \in Interior(gpu) : d_writes[Idx(p[1], p[2], gpu.len2)] = 1

\* on an anti-diagonal that starts below row 1, a unit beyond the range has
\* returned without an access while another unit has stored its cell
C14_Witness ==
    \E k1, k2 \in DOMAIN threads :
        /\ threads[k1].start_i > 1
        /\ UnitRow(k1) > threads[k1].end_i
        /\ threads[k1].st = "done"
        /\ threads[k2].wr # {}

\* the string with its gap symbols removed
Degap(s) == SelectSeq(s, LAMBDA c : ~IsGap(c))
\* the score of one alignment column
ColumnScore(a, b) ==
    IF IsGap(a) \/ IsGap(b) THEN policy.gapScore ELSE PairScore(a, b)
\* the sum of the column scores of the first n columns
RECURSIVE ColumnSum(_, _, _)
ColumnSum(a1, a2, n) ==
    IF n = 0 THEN 0
    ELSE ColumnSum(a1, a2, n - 1) + ColumnScore(a1[n], a2[n])
\* the contiguous substring of s of length n that ends at position e
EndingAt(s, e, n) == SubSeq(s, e - n + 1, e)
\* the two strings of h are in their final order
Reversed(h) == h.pc \in {"render", "print"} \/ Ok(h)

Additive(h) ==
    Reversed(h) =>
        /\ h.maxScore = ColumnSum(h.align1, h.align2, Len(h.align1))
        /\ Len(Degap(h.align1)) <= h.max_i
        /\ Len(Degap(h.align2)) <= h.max_j
        /\ Degap(h.align1) = EndingAt(h.seq1, h.max_i, Len(Degap(h.align1)))
        /\ Degap(h.align2) = EndingAt(h.seq2, h.max_j, Len(Degap(h.align2)))

\* C15: a traceback that has started ends (neither program stays in its
\* traceback loop for ever); the score reported is the sum of
\* the column scores of the two aligned strings (match or mismatch for two
\* residues, the gap score for a column with a gap); without their gaps the
\* strings are the contiguous substrings of seq1 and seq2 ending at the best
\* cell's row and column.
C15_TracebackSound ==
    /\ [](SwRunning => Additive(cpu))
    /\ []Additive(gpu)
    /\ []<>(cpu.pc # "trace")
    /\ []<>(gpu.pc # "trace")

\* the CUDA program has exited with an alignment of positive score that has
\* a mismatch column between two match columns
C15_Witness ==
    /\ Ok(gpu)
    /\ gpu.maxScore > 0
    /\ Len(gpu.align1) = 3
    /\ ~IsGap(gpu.align1[2]) /\ ~IsGap(gpu.align2[2])
    /\ gpu.align1[2] # gpu.align2[2]
    /\ gpu.align1[1] = gpu.align2[1]
=============================================================================
